---- MODULE Spec2Model ----
(***************************************************************************)
(* Model of src/dashboard.py: a Streamlit script that loads four           *)
(* spreadsheets, aggregates them at module level and renders one of four   *)
(* pages.  One behaviour is a browser session: the script runs top to      *)
(* bottom (one action per section of the script), stops at the first       *)
(* uncaught exception, and is run again when the user picks another page   *)
(* or reloads.                                                             *)
(*                                                                         *)
(* Numbers: a spreadsheet cell is a number or a text.  KPI values rounded  *)
(* with round(x, 2) are kept in hundredths (6667 is 66.67); a mean that is *)
(* not rounded is kept as the pair sum/count.                              *)
(***************************************************************************)
EXTENDS Integers, Sequences, FiniteSets, TLC

\* ------------------------------------------------------------------ bounds
MaxMissingRows == 1   \* rows absent from the Summary sheet
MaxMonthCols == 1     \* month columns present in the Summary sheet
MaxSightings == 4     \* rows of the WildSpotter sheet
MaxResponses == 2     \* rows of the Satisfaction sheet
MaxSurveys == 3       \* rows of the Strategic sheet

\* ------------------------------------------------------------------- cells
\* A cell as gspread's get_all_records returns it: a number, or a text (a
\* blank cell is the text "").
Num(n) == [kind |-> "num", num |-> n, txt |-> ""]
Txt(s) == [kind |-> "str", num |-> 0, txt |-> s]
Blank == Txt("")

\* float(cell): the number of a numeric cell; ValueError for a text that is no
\* number (the sheets' texts here are "" and "N/A").
FloatOk(c) == c.kind = "num"
Float(c) == c.num

\* Range of a sequence, sum of a sequence of integers.
Range(s) == {s[i] : i \in DOMAIN s}

RECURSIVE SumSeq(_)
SumSeq(s) == IF s = <<>> THEN 0 ELSE s[1] + SumSeq(Tail(s))

DigitChar == <<"0", "1", "2", "3", "4", "5", "6", "7", "8", "9">>
RECURSIVE Decimal(_)
\* str(n) of a natural number.
Decimal(n) ==
    IF n < 10 THEN DigitChar[n + 1]
    ELSE Decimal(n \div 10) \o DigitChar[(n % 10) + 1]

\* round(num/den * 100) to an integer, ties to even: Python's round(x, 2) of the
\* float num/den, in hundredths.
RoundHundredths(num, den) ==
    LET q == (100 * num) \div den
        r == (100 * num) % den
    IN  IF 2 * r > den THEN q + 1
        ELSE IF 2 * r < den THEN q
        ELSE IF q % 2 = 0 THEN q ELSE q + 1

\* A mean that pandas leaves unrounded: sum/count, NaN over no values.
NaN == [nan |-> TRUE, sum |-> 0, count |-> 0]
MeanOf(vals) ==
    IF vals = <<>> THEN NaN
    ELSE [nan |-> FALSE, sum |-> SumSeq(vals), count |-> Len(vals)]

\* ------------------------------------------------------- the Summary sheet
\* The Summary sheet as summary_df holds it after set_index("Metric"): a
\* function from the metric name of a row to the row, a function from column
\* header to cell.  Every row has the same columns.
RequiredRows ==
    <<"Volunteers", "Hours", "RTF Volunteers", "RTF Hours", "RTF Acreage", "Value">>
AllRows == Range(RequiredRows) \cup {"RTF Value"}

\* str(i) for i in range(1, 13).
StrOf(i) == Decimal(i)
MonthNumbers == 1 .. 12
MonthKeys == {StrOf(i) : i \in MonthNumbers}

\* pd.Timestamp(f"2025-{i:02d}-01").strftime('%b')
MonthAbbr ==
    <<"Jan", "Feb", "Mar", "Apr", "May", "Jun",
      "Jul", "Aug", "Sep", "Oct", "Nov", "Dec">>

StdTotal ==
    [m \in AllRows |->
        CASE m = "Volunteers" -> 120
          [] m = "Hours" -> 450
          [] m = "RTF Volunteers" -> 30
          [] m = "RTF Hours" -> 90
          [] m = "RTF Acreage" -> 12
          [] m = "Value" -> 5000
          [] OTHER -> 750]

\* A sheet with the rows `rows`, the month columns `months`, the Value row's
\* month cells `cells` and the RTF Value row's Total cell `rtf`.
MkSummary(rows, months, cells, rtf) ==
    [m \in rows |->
        [c \in {"Total"} \cup months |->
            IF c = "Total"
            THEN (IF m = "RTF Value" THEN rtf ELSE Num(StdTotal[m]))
            ELSE (IF m = "Value" THEN cells[c] ELSE Num(0))]]

StdMonths == ("1" :> Num(200)) @@ ("2" :> Num(300))
GoodSummary == MkSummary(AllRows, DOMAIN StdMonths, StdMonths, Num(750))
BadSummary == MkSummary(AllRows \ {"Hours"}, DOMAIN StdMonths, StdMonths, Num(750))

MonthCells == {Num(0), Num(200), Blank}
\* Sheets that miss up to MaxMissingRows rows, and sheets with every row and up
\* to MaxMonthCols month columns.
SummarySheets ==
    {MkSummary(AllRows \ missing, DOMAIN StdMonths, StdMonths, Num(750)) :
        missing \in {x \in SUBSET AllRows : Cardinality(x) <= MaxMissingRows}}
    \cup
    UNION {UNION {{MkSummary(AllRows, months, cells, rtf) :
                        cells \in [months -> MonthCells]} :
                    months \in {x \in SUBSET MonthKeys : Cardinality(x) <= MaxMonthCols}} :
            rtf \in {Num(0), Num(750), Blank}}

\* ---------------------------------------------- Volunteer Summary Processing
\* float(summary_df.loc[row]["Total"]): "KeyError" when the row (or the Total
\* column) is absent, "ValueError" when the cell is no number, else "none".
TotalError(df, row) ==
    IF row \notin DOMAIN df THEN "KeyError"
    ELSE IF "Total" \notin DOMAIN df[row] THEN "KeyError"
    ELSE IF ~FloatOk(df[row]["Total"]) THEN "ValueError"
    ELSE "none"
TotalOf(df, row) == Float(df[row]["Total"])

RECURSIVE FirstError(_)
\* The first entry of a sequence of error kinds that is an error.
FirstError(errs) ==
    IF errs = <<>> THEN "none"
    ELSE IF Head(errs) # "none" THEN Head(errs)
    ELSE FirstError(Tail(errs))

KpiLabels ==
    <<"Total Volunteers", "Total Hours", "RTF Volunteers", "RTF Hours",
      "RTF Acreage", "Total Value ($)">>
\* kpi_cards: label -> float(Total of the row), in the dict's order.
KpiCards(df) ==
    [i \in DOMAIN RequiredRows |->
        [label |-> KpiLabels[i], value |-> TotalOf(df, RequiredRows[i])]]

\* Mutant: the months counted from 0, range(0, 12).
MonthCellOffByOne(value_row, i) ==
    IF StrOf(i - 1) \in DOMAIN value_row THEN value_row[StrOf(i - 1)] ELSE Num(0)
\* value_row.get(str(i), 0.0)
MonthCell(value_row, i) ==
    IF StrOf(i) \in DOMAIN value_row THEN value_row[StrOf(i)] ELSE Num(0)
\* monthly_value, line 34: {str(i): float(value_row.get(str(i), 0.0))}
MonthlyByNumber(value_row) ==
    [i \in MonthNumbers |-> [key |-> StrOf(i), value |-> Float(MonthCell(value_row, i))]]
\* month_map: str(i) -> month abbreviation
MonthMap == [k \in MonthKeys |-> MonthAbbr[CHOOSE i \in MonthNumbers : StrOf(i) = k]]
\* monthly_value, line 36: re-keyed by month_map, order kept.
MonthlyValue(value_row) ==
    LET byNumber == MonthlyByNumber(value_row)
    IN  [i \in DOMAIN byNumber |->
            [month |-> MonthMap[byNumber[i].key], value |-> byNumber[i].value]]

\* The exception lines 20-36 raise on df, "none" when they complete.
SummaryError(df) ==
    IF "Value" \notin DOMAIN df THEN "KeyError"
    ELSE FirstError(
            [i \in DOMAIN RequiredRows |-> TotalError(df, RequiredRows[i])]
            \o [i \in MonthNumbers |->
                    IF FloatOk(MonthCell(df["Value"], i)) THEN "none" ELSE "ValueError"])

\* --------------------------------------------------- the WildSpotter sheet
\* get_all_records of a sheet: a sequence of rows, each a function from column
\* header to cell.  An empty sheet gives a DataFrame without columns.
SpeciesNames == {"Deer", "Fox", "Owl"}
RECURSIVE SeqsUpTo(_, _)
\* The sequences over S of length at most n.
SeqsUpTo(S, n) ==
    IF n = 0 THEN {<<>>}
    ELSE LET shorter == SeqsUpTo(S, n - 1)
         IN  shorter \cup {Append(q, x) : q \in shorter, x \in S}
SightingRows == {[c \in {"Species Name"} |-> sp] : sp \in SpeciesNames}
WildSpotterSheets == SeqsUpTo(SightingRows, MaxSightings)
GoodWildSpotter ==
    <<[c \in {"Species Name"} |-> "Deer"], [c \in {"Species Name"} |-> "Deer"],
      [c \in {"Species Name"} |-> "Fox"]>>
BadWildSpotter == <<>>

\* df[col]: present when the frame has rows and they have the column.
HasColumn(df, col) == df # <<>> /\ \A i \in DOMAIN df : col \in DOMAIN df[i]
Column(df, col) == [i \in DOMAIN df |-> df[i][col]]

RECURSIVE Distinct(_)
\* The values of a sequence, each once, in order of first appearance.
Distinct(s) ==
    IF s = <<>> THEN <<>>
    ELSE LET front == Distinct(SubSeq(s, 1, Len(s) - 1))
             last == s[Len(s)]
         IN  IF last \in Range(front) THEN front ELSE Append(front, last)
CountOf(s, v) == Cardinality({i \in DOMAIN s : s[i] = v})

RECURSIVE InsertByCount(_, _)
\* e inserted into a ranking sorted by descending count, after the entries of
\* the same count (a stable sort).
InsertByCount(ranking, e) ==
    IF ranking = <<>> THEN <<e>>
    ELSE IF Head(ranking).count >= e.count
         THEN <<Head(ranking)>> \o InsertByCount(Tail(ranking), e)
         ELSE <<e>> \o ranking
\* Mutant: value_counts(sort=False), the order of first appearance.
SortByCountUnsorted(entries) == entries
RECURSIVE SortByCount(_)
SortByCount(entries) ==
    IF entries = <<>> THEN <<>>
    ELSE InsertByCount(SortByCount(SubSeq(entries, 1, Len(entries) - 1)),
                       entries[Len(entries)])
\* Series.value_counts(): (value, count) by descending count, values of equal
\* count in order of first appearance.
ValueCounts(col) ==
    LET vals == Distinct(col)
    IN  SortByCount([i \in DOMAIN vals |->
                        [species |-> vals[i], count |-> CountOf(col, vals[i])]])
\* Series.max() of the counts.
MaxCount(ranking) ==
    CHOOSE m \in {ranking[i].count : i \in DOMAIN ranking} :
        \A i \in DOMAIN ranking : ranking[i].count <= m
\* Series.idxmax(): the label of the first entry that holds the maximum.
IdxMax(ranking) ==
    LET first == CHOOSE i \in DOMAIN ranking :
                    /\ ranking[i].count = MaxCount(ranking)
                    /\ \A j \in DOMAIN ranking :
                            ranking[j].count = MaxCount(ranking) => i <= j
    IN  ranking[first].species

\* The exception lines 39-42 raise, "none" when they complete.
WildSpotterError(df) == IF HasColumn(df, "Species Name") THEN "none" ELSE "KeyError"

\* -------------------------------------------------- the Satisfaction sheet
SatisfactionColumns ==
    <<"Timestamp", "Event Title", "I felt welcome",
      "The event positively impacted me", "Comments">>
ScoreTexts ==
    {"Strongly Disagree", "Disagree", "Neutral", "Agree", "Strongly Agree", "N/A"}
MkResponse(ts, event, q1, q2) ==
    [c \in Range(SatisfactionColumns) |->
        CASE c = "Timestamp" -> ts
          [] c = "Event Title" -> event
          [] c = "I felt welcome" -> q1
          [] c = "The event positively impacted me" -> q2
          [] OTHER -> ""]
ResponseRows ==
    {MkResponse(ts, "Cleanup", q1, "Agree") :
        ts \in {"2025-03-14 09:30:00", "n/a"}, q1 \in ScoreTexts}
    \cup {MkResponse("2025-04-02 18:00:00", "Planting", "Agree", "Agree"),
          MkResponse("n/a", "Planting", "N/A", "")}
SatisfactionSheets == SeqsUpTo(ResponseRows, MaxResponses)
GoodSatisfaction ==
    <<MkResponse("2025-03-14 09:30:00", "Cleanup", "Agree", "Agree"),
      MkResponse("2025-04-02 18:00:00", "Planting", "N/A", "Agree")>>
BadSatisfaction == <<>>

\* pd.to_datetime(text, errors='coerce'): the timestamp, NaT for a text that is
\* no date (the texts of the sheets above).
NaT == [nat |-> TRUE, year |-> 0, month |-> 0]
ToDatetime(text) ==
    CASE text = "2025-03-14 09:30:00" -> [nat |-> FALSE, year |-> 2025, month |-> 3]
      [] text = "2025-04-02 18:00:00" -> [nat |-> FALSE, year |-> 2025, month |-> 4]
      [] OTHER -> NaT
\* Timestamp.dt.to_period('M').astype(str): "2025-03"; the missing period
\* prints as the text "NaT".
MonthOf(ts) ==
    IF ts.nat THEN "NaT"
    ELSE Decimal(ts.year) \o "-" \o (IF ts.month < 10 THEN "0" ELSE "") \o Decimal(ts.month)

\* col.startswith("I") or "positively" in col, of the headers of the frame.
StartsWithI == {"I felt welcome"}
ContainsPositively == {"The event positively impacted me"}
IsLikert(col) == col \in StartsWithI \/ col \in ContainsPositively
LikertColumns(columns) == SelectSeq(columns, IsLikert)

score_map ==
    [t \in {"Strongly Disagree", "Disagree", "Neutral", "Agree", "Strongly Agree"} |->
        CASE t = "Strongly Disagree" -> 1
          [] t = "Disagree" -> 2
          [] t = "Neutral" -> 3
          [] t = "Agree" -> 4
          [] OTHER -> 5]
\* Series.map(score_map): the score, missing (NaN) for a text not in the map.
MapScore(text) ==
    IF text \in DOMAIN score_map
    THEN [missing |-> FALSE, val |-> score_map[text]]
    ELSE [missing |-> TRUE, val |-> 0]

\* melt + map: one row per (Likert column, response), Likert columns outermost.
SatisfactionLong(df) ==
    LET likert == LikertColumns(SatisfactionColumns \o <<"Month">>)
        n == Len(df)
    IN  [k \in 1 .. (n * Len(likert)) |->
            LET c == likert[((k - 1) \div n) + 1]
                r == df[((k - 1) % n) + 1]
            IN  [Timestamp |-> ToDatetime(r["Timestamp"]),
                 EventTitle |-> r["Event Title"],
                 Month |-> MonthOf(ToDatetime(r["Timestamp"])),
                 Statement |-> c,
                 Score |-> MapScore(r[c])]]

\* Mutant: missing scores counted as 0, as after fillna(0).
ScoresWithMissingAsZero(rows) == [i \in DOMAIN rows |-> rows[i].Score.val]
\* The scores of a sequence of rows that are not missing (mean skips NaN).
PresentScores(rows) ==
    LET kept == SelectSeq(rows, LAMBDA row : ~row.Score.missing)
    IN  [i \in DOMAIN kept |-> kept[i].Score.val]
\* groupby([key, "Statement"]).Score.mean(): the mean of each group, missing
\* scores skipped.  (The order of the groups is not modelled.)
SatisfactionByEvent(long) ==
    [g \in {<<long[i].EventTitle, long[i].Statement>> : i \in DOMAIN long} |->
        MeanOf(PresentScores(SelectSeq(long,
                 LAMBDA row : row.EventTitle = g[1] /\ row.Statement = g[2])))]
SatisfactionByMonth(long) ==
    [g \in {<<long[i].Month, long[i].Statement>> : i \in DOMAIN long} |->
        MeanOf(PresentScores(SelectSeq(long,
                 LAMBDA row : row.Month = g[1] /\ row.Statement = g[2])))]

\* The exception lines 45-58 raise, "none" when they complete.
SatisfactionError(df) ==
    IF HasColumn(df, "Timestamp") /\ HasColumn(df, "Event Title")
    THEN "none" ELSE "KeyError"

\* ----------------------------------------------------- the Strategic sheet
BarrierCol == "Do you face any barriers to accessing the park?"
AccessCol == "Rate the accessibility of the park (1-5)"
VisitCol == "Rate how often you visit the park (1-5)"
\* The barrier answers are texts, kept as sequences of characters: str.lower()
\* acts on each character.
MkSurvey(barrier, access, visit, zip, age) ==
    [c \in {BarrierCol, AccessCol, VisitCol, "Zip Code", "Age Range"} |->
        CASE c = BarrierCol -> [kind |-> "str", num |-> 0, txt |-> barrier]
          [] c = AccessCol -> access
          [] c = VisitCol -> visit
          [] c = "Zip Code" -> Txt(zip)
          [] OTHER -> Txt(age)]
BarrierTexts == {<<"Y", "e", "s">>, <<"Y", "E", "S">>, <<"M", "a", "y", "b", "e">>, <<>>}
SurveyRows ==
    {MkSurvey(b, Num(4), Num(2), "07001", "18-25") : b \in BarrierTexts}
    \cup {MkSurvey(<<"n", "o">>, a, Num(3), "7001", "26-40") :
            a \in {Num(2), Num(5), Txt("N/A")}}
    \cup {MkSurvey(<<"y", "e", "s">>, Num(3), Blank, "07001", "26-40")}
StrategicSheets == SeqsUpTo(SurveyRows, MaxSurveys)
GoodStrategic ==
    <<MkSurvey(<<"Y", "e", "s">>, Num(4), Num(2), "07001", "18-25"),
      MkSurvey(<<"n", "o">>, Num(5), Num(3), "7001", "26-40"),
      MkSurvey(<<"Y", "E", "S">>, Num(4), Num(2), "07001", "18-25")>>
BadStrategic ==
    <<MkSurvey(<<"n", "o">>, Txt("N/A"), Num(3), "7001", "26-40")>>

\* str.lower() of one character, of a text.
LowerChar(ch) ==
    CASE ch = "Y" -> "y"
      [] ch = "E" -> "e"
      [] ch = "S" -> "s"
      [] ch = "M" -> "m"
      [] OTHER -> ch
Lower(text) == [i \in DOMAIN text |-> LowerChar(text[i])]
\* Mutant: the comparison without str.lower().
FacesBarrierCaseSensitive(cell) == cell.txt = <<"y", "e", "s">>
\* col.str.lower().eq("yes"): one boolean per row.
FacesBarrier(cell) == Lower(cell.txt) = <<"y", "e", "s">>
\* round(100 * booleans.mean(), 2), in hundredths.
PctFacingBarriers(df) ==
    RoundHundredths(100 * Cardinality({i \in DOMAIN df : FacesBarrier(df[i][BarrierCol])}),
                    Len(df))
\* col.astype(float): ValueError when a cell is no number.
AsTypeFloatOk(col) == \A i \in DOMAIN col : FloatOk(col[i])
AsTypeFloat(col) == [i \in DOMAIN col |-> Float(col[i])]
\* round(col.astype(float).mean(), 2), in hundredths.
RoundedMean(col) == RoundHundredths(SumSeq(AsTypeFloat(col)), Len(col))

StrategicKpis(df) ==
    [TotalResponses |-> Len(df),
     PctFacingBarriers |-> PctFacingBarriers(df),
     AccessibilityScore |-> RoundedMean(Column(df, AccessCol)),
     VisitFrequencyScore |-> RoundedMean(Column(df, VisitCol))]
\* groupby(key)[col].mean(): the mean of col in each group of key.
GroupMean(df, key, col) ==
    [g \in {df[i][key].txt : i \in DOMAIN df} |->
        LET rows == SelectSeq(df, LAMBDA r : r[key].txt = g)
        IN  MeanOf([i \in DOMAIN rows |-> Float(rows[i][col])])]

\* The exception lines 61-69 raise, "none" when they complete.
StrategicError(df) ==
    IF ~HasColumn(df, BarrierCol) THEN "KeyError"
    ELSE IF ~HasColumn(df, AccessCol) THEN "KeyError"
    ELSE IF ~AsTypeFloatOk(Column(df, AccessCol)) THEN "ValueError"
    ELSE IF ~HasColumn(df, VisitCol) THEN "KeyError"
    ELSE IF ~AsTypeFloatOk(Column(df, VisitCol)) THEN "ValueError"
    ELSE IF ~HasColumn(df, "Zip Code") \/ ~HasColumn(df, "Age Range") THEN "KeyError"
    ELSE "none"

\* ------------------------------------------------------------------ state
VARIABLES
    summary_sheet, wildspotter_sheet, satisfaction_sheet, strategic_sheet,
    pc,                  \* the section of the script that runs next
    error,               \* the uncaught exception that ended the run
    computed,            \* the datasets whose section has completed
    summary_df, kpi_cards, monthly_value,
    wildspotter_df, total_sightings, most_common_species, top_species_count,
    satisfaction_long, satisfaction_by_event, satisfaction_by_month,
    strategic_kpis, strategic_by_zip, strategic_by_age,
    selection,           \* the radio widget's value, kept by the session
    page,                \* what st.sidebar.radio returned in this run
    rendered             \* the elements the run has put on the screen

sheets == <<summary_sheet, wildspotter_sheet, satisfaction_sheet, strategic_sheet>>
summaryVars == <<summary_df, kpi_cards, monthly_value>>
wildVars == <<wildspotter_df, total_sightings, most_common_species, top_species_count>>
satisfactionVars == <<satisfaction_long, satisfaction_by_event, satisfaction_by_month>>
strategicVars == <<strategic_kpis, strategic_by_zip, strategic_by_age>>
vars ==
    <<sheets, pc, error, computed, summaryVars, wildVars, satisfactionVars,
      strategicVars, selection, page, rendered>>

Pages ==
    <<"Volunteer Programs", "Invasive Plant Removal", "Strategic Plan",
      "Milestones and Summary">>
Datasets == {"Summary", "WildSpotter", "Satisfaction", "Strategic"}
NoError == [at |-> "", kind |-> "none"]
NoKpis ==
    [TotalResponses |-> 0, PctFacingBarriers |-> 0, AccessibilityScore |-> 0,
     VisitFrequencyScore |-> 0]

\* One element on the screen: the page section (or "layout", "error") that put
\* it there, the widget, its label and what it shows.
Element(section, widget, label, value) ==
    [section |-> section, widget |-> widget, label |-> label, value |-> value]
\* Streamlit shows an uncaught exception in place of the rest of the script.
ExceptionBox(kind) == Element("error", "exception", kind, 0)

\* Mutant: every section wrapped in a try/except that goes on.
NextPcSwallowed(err, next) == next
\* The module-level code has no try/except: an exception in a section ends the
\* run, otherwise the script goes on to the next section.
NextPc(err, next) == IF err = "none" THEN next ELSE "failed"
Raised(at, err) == IF err = "none" THEN error ELSE [at |-> at, kind |-> err]
Shown(err, elements) ==
    IF err = "none" THEN rendered \o elements ELSE Append(rendered \o elements, ExceptionBox(err))

\* The state of a run that starts: no global is bound, the screen is empty.
StartRun ==
    /\ pc = "summary"
    /\ error = NoError
    /\ computed = {}
    /\ summary_df = <<>> /\ kpi_cards = <<>> /\ monthly_value = <<>>
    /\ wildspotter_df = <<>> /\ total_sightings = 0
    /\ most_common_species = "" /\ top_species_count = 0
    /\ satisfaction_long = <<>> /\ satisfaction_by_event = <<>>
    /\ satisfaction_by_month = <<>>
    /\ strategic_kpis = NoKpis /\ strategic_by_zip = <<>> /\ strategic_by_age = <<>>
    /\ page = ""
    /\ rendered = <<>>

\* The same, as the state a run that starts again begins in.
Restart ==
    /\ pc' = "summary"
    /\ error' = NoError
    /\ computed' = {}
    /\ summary_df' = <<>> /\ kpi_cards' = <<>> /\ monthly_value' = <<>>
    /\ wildspotter_df' = <<>> /\ total_sightings' = 0
    /\ most_common_species' = "" /\ top_species_count' = 0
    /\ satisfaction_long' = <<>> /\ satisfaction_by_event' = <<>>
    /\ satisfaction_by_month' = <<>>
    /\ strategic_kpis' = NoKpis /\ strategic_by_zip' = <<>> /\ strategic_by_age' = <<>>
    /\ page' = ""
    /\ rendered' = <<>>

\* The sheets the script opens (lines 14-17): every combination of a good and a
\* bad sheet, and each sheet drawn from its family beside good other sheets.
InitSheets ==
    \/ /\ summary_sheet \in {GoodSummary, BadSummary}
       /\ wildspotter_sheet \in {GoodWildSpotter, BadWildSpotter}
       /\ satisfaction_sheet \in {GoodSatisfaction, BadSatisfaction}
       /\ strategic_sheet \in {GoodStrategic, BadStrategic}
    \/ /\ summary_sheet \in SummarySheets
       /\ wildspotter_sheet = GoodWildSpotter
       /\ satisfaction_sheet = GoodSatisfaction
       /\ strategic_sheet = GoodStrategic
    \/ /\ summary_sheet = GoodSummary
       /\ wildspotter_sheet \in WildSpotterSheets
       /\ satisfaction_sheet = GoodSatisfaction
       /\ strategic_sheet = GoodStrategic
    \/ /\ summary_sheet = GoodSummary
       /\ wildspotter_sheet = GoodWildSpotter
       /\ satisfaction_sheet \in SatisfactionSheets
       /\ strategic_sheet = GoodStrategic
    \/ /\ summary_sheet = GoodSummary
       /\ wildspotter_sheet = GoodWildSpotter
       /\ satisfaction_sheet = GoodSatisfaction
       /\ strategic_sheet \in StrategicSheets

Init ==
    /\ InitSheets
    /\ selection = Pages[1]
    /\ StartRun

\* ---------------------------------------------------------------- sections
\* Lines 19-36.
KpiError(df) ==
    IF "Value" \notin DOMAIN df THEN "KeyError"
    ELSE FirstError([i \in DOMAIN RequiredRows |-> TotalError(df, RequiredRows[i])])
SummaryProcessing ==
    /\ pc = "summary"
    /\ LET df == summary_sheet
           err == SummaryError(df)
       IN  /\ summary_df' = df
           /\ kpi_cards' = IF KpiError(df) = "none" THEN KpiCards(df) ELSE kpi_cards
           /\ monthly_value' =
                IF err = "none" THEN MonthlyValue(df["Value"]) ELSE monthly_value
           /\ computed' = IF err = "none" THEN computed \cup {"Summary"} ELSE computed
           /\ pc' = NextPc(err, "wildspotter")
           /\ error' = Raised("Summary", err)
           /\ rendered' = Shown(err, <<>>)
    /\ UNCHANGED <<sheets, wildVars, satisfactionVars, strategicVars, selection, page>>

\* Lines 38-42.
WildSpotterSummary ==
    /\ pc = "wildspotter"
    /\ LET df == wildspotter_sheet
           err == WildSpotterError(df)
       IN  /\ wildspotter_df' = df
           /\ total_sightings' = Len(df)
           /\ most_common_species' =
                IF err = "none" THEN IdxMax(ValueCounts(Column(df, "Species Name")))
                ELSE most_common_species
           /\ top_species_count' =
                IF err = "none" THEN MaxCount(ValueCounts(Column(df, "Species Name")))
                ELSE top_species_count
           /\ computed' = IF err = "none" THEN computed \cup {"WildSpotter"} ELSE computed
           /\ pc' = NextPc(err, "satisfaction")
           /\ error' = Raised("WildSpotter", err)
           /\ rendered' = Shown(err, <<>>)
    /\ UNCHANGED <<sheets, summaryVars, satisfactionVars, strategicVars, selection, page>>

\* Lines 44-58.
SatisfactionSummary ==
    /\ pc = "satisfaction"
    /\ LET df == satisfaction_sheet
           err == SatisfactionError(df)
           long == SatisfactionLong(df)
       IN  /\ satisfaction_long' = IF err = "none" THEN long ELSE satisfaction_long
           /\ satisfaction_by_event' =
                IF err = "none" THEN SatisfactionByEvent(long) ELSE satisfaction_by_event
           /\ satisfaction_by_month' =
                IF err = "none" THEN SatisfactionByMonth(long) ELSE satisfaction_by_month
           /\ computed' = IF err = "none" THEN computed \cup {"Satisfaction"} ELSE computed
           /\ pc' = NextPc(err, "strategic")
           /\ error' = Raised("Satisfaction", err)
           /\ rendered' = Shown(err, <<>>)
    /\ UNCHANGED <<sheets, summaryVars, wildVars, strategicVars, selection, page>>

\* Lines 60-69.
StrategicPlanSummary ==
    /\ pc = "strategic"
    /\ LET df == strategic_sheet
           err == StrategicError(df)
       IN  /\ strategic_kpis' = IF err = "none" THEN StrategicKpis(df) ELSE strategic_kpis
           /\ strategic_by_zip' =
                IF err = "none" THEN GroupMean(df, "Zip Code", AccessCol)
                ELSE strategic_by_zip
           /\ strategic_by_age' =
                IF err = "none" THEN GroupMean(df, "Age Range", VisitCol)
                ELSE strategic_by_age
           /\ computed' = IF err = "none" THEN computed \cup {"Strategic"} ELSE computed
           /\ pc' = NextPc(err, "layout")
           /\ error' = Raised("Strategic", err)
           /\ rendered' = Shown(err, <<>>)
    /\ UNCHANGED <<sheets, summaryVars, wildVars, satisfactionVars, selection, page>>

\* ------------------------------------------------------------------ layout
\* Lines 71-77: the sidebar radio returns the session's selection.
Layout ==
    /\ pc = "layout"
    /\ page' = selection
    /\ rendered' = rendered \o
            <<Element("layout", "sidebar.title", "Dashboard Pages", 0),
              Element("layout", "sidebar.radio", "Select a Page", selection),
              Element("layout", "title", selection, 0)>>
    /\ pc' = "page"
    /\ UNCHANGED <<sheets, error, computed, summaryVars, wildVars, satisfactionVars,
                   strategicVars, selection>>

\* st.metric for each (label, value) of a KPI dict.
Metrics(section, kpis) ==
    [i \in DOMAIN kpis |-> Element(section, "metric", kpis[i].label, kpis[i].value)]

\* Lines 79-98.
VolunteerProgramsPage ==
    /\ pc = "page"
    /\ page = Pages[1]
    /\ rendered' = rendered
            \o <<Element(page, "subheader", "Key Performance Indicators", 0)>>
            \o Metrics(page, kpi_cards)
            \o <<Element(page, "subheader", "Monthly Volunteer Time Value ($)", 0),
                 Element(page, "altair_chart", "Total Value ($)", monthly_value),
                 Element(page, "subheader", "Volunteer Satisfaction by Event Title", 0),
                 Element(page, "dataframe", "satisfaction_by_event", satisfaction_by_event),
                 Element(page, "subheader", "Volunteer Satisfaction by Month", 0),
                 Element(page, "dataframe", "satisfaction_by_month", satisfaction_by_month)>>
    /\ pc' = "done"
    /\ UNCHANGED <<sheets, error, computed, summaryVars, wildVars, satisfactionVars,
                   strategicVars, selection, page>>

\* invasive_kpis, lines 102-107.
InvasiveRows == <<"RTF Volunteers", "RTF Hours", "RTF Acreage">>
InvasiveLabels ==
    <<"RTF Volunteer Count", "RTF Volunteer Hours", "RTF Acreage Removed", "RTF Value ($)">>
\* summary_df.loc["RTF Value"]["Total"] if "RTF Value" in summary_df.index else 0.0
RtfValueCell(df) == IF "RTF Value" \in DOMAIN df THEN df["RTF Value"]["Total"] ELSE Num(0)
InvasiveError(df) ==
    FirstError([i \in DOMAIN InvasiveRows |-> TotalError(df, InvasiveRows[i])]
               \o <<IF "RTF Value" \in DOMAIN df /\ "Total" \notin DOMAIN df["RTF Value"]
                    THEN "KeyError"
                    ELSE IF FloatOk(RtfValueCell(df)) THEN "none" ELSE "ValueError">>)
InvasiveKpis(df) ==
    [i \in DOMAIN InvasiveLabels |->
        [label |-> InvasiveLabels[i],
         value |-> IF i \in DOMAIN InvasiveRows THEN TotalOf(df, InvasiveRows[i])
                   ELSE Float(RtfValueCell(df))]]
\* DataFrame.head(10)
Head10(rows) == SubSeq(rows, 1, IF Len(rows) < 10 THEN Len(rows) ELSE 10)

\* Lines 100-127.
InvasivePlantRemovalPage ==
    /\ pc = "page"
    /\ page = Pages[2]
    /\ LET err == InvasiveError(summary_df)
       IN  /\ rendered' =
                IF err # "none"
                THEN Shown(err, <<Element(page, "subheader", "Invasive Plant Removal KPIs", 0)>>)
                ELSE rendered
                    \o <<Element(page, "subheader", "Invasive Plant Removal KPIs", 0)>>
                    \o Metrics(page, InvasiveKpis(summary_df))
                    \o <<Element(page, "subheader", "WildSpotter Summary", 0),
                         Element(page, "metric", "Total Sightings", total_sightings),
                         Element(page, "metric", "Most Common Species",
                                 <<most_common_species, top_species_count>>),
                         Element(page, "subheader", "Most Common Species Chart", 0),
                         Element(page, "altair_chart", "Count",
                                 Head10(IF HasColumn(wildspotter_df, "Species Name")
                                        THEN ValueCounts(Column(wildspotter_df, "Species Name"))
                                        ELSE <<>>)),
                         Element(page, "subheader", "WildSpotter Sightings Table", 0),
                         Element(page, "dataframe", "wildspotter_df", wildspotter_df)>>
           /\ pc' = NextPc(err, "done")
           /\ error' = Raised(page, err)
    /\ UNCHANGED <<sheets, computed, summaryVars, wildVars, satisfactionVars,
                   strategicVars, selection, page>>

\* Lines 129-140.
StrategicPlanPage ==
    /\ pc = "page"
    /\ page = Pages[3]
    /\ rendered' = rendered \o
            <<Element(page, "subheader", "Strategic Plan Pillar 1 KPIs", 0),
              Element(page, "metric", "Total Responses", strategic_kpis.TotalResponses),
              Element(page, "metric", "% Facing Barriers", strategic_kpis.PctFacingBarriers),
              Element(page, "metric", "Accessibility Score", strategic_kpis.AccessibilityScore),
              Element(page, "metric", "Visit Frequency Score",
                      strategic_kpis.VisitFrequencyScore),
              Element(page, "subheader", "Accessibility by Zip Code", 0),
              Element(page, "bar_chart", "Accessibility", strategic_by_zip),
              Element(page, "subheader", "Visit Frequency by Age Range", 0),
              Element(page, "bar_chart", "Visit Frequency", strategic_by_age)>>
    /\ pc' = "done"
    /\ UNCHANGED <<sheets, error, computed, summaryVars, wildVars, satisfactionVars,
                   strategicVars, selection, page>>

\* Lines 142-146.
MilestonesPage ==
    /\ pc = "page"
    /\ page = Pages[4]
    /\ rendered' = rendered \o
            <<Element(page, "subheader", "Milestone Summary", 0),
              Element(page, "write", "Milestone tracking", 0),
              Element(page, "download_button", "summary_report.csv", summary_df),
              Element(page, "download_button", "wildspotter_data.csv", wildspotter_df)>>
    /\ pc' = "done"
    /\ UNCHANGED <<sheets, error, computed, summaryVars, wildVars, satisfactionVars,
                   strategicVars, selection, page>>

\* ---------------------------------------------------------------- session
RunEnded == pc \in {"done", "failed"}
RadioShown == \E i \in DOMAIN rendered : rendered[i].widget = "sidebar.radio"

\* The user picks another page on the radio the last run showed: Streamlit
\* runs the script again from the top with the new selection.
SelectPage(p) ==
    /\ RunEnded
    /\ RadioShown
    /\ p # selection
    /\ selection' = p
    /\ Restart
    /\ UNCHANGED sheets

\* The user reloads the dashboard: a new session, the radio at its default.
Reload ==
    /\ RunEnded
    /\ selection' = Pages[1]
    /\ Restart
    /\ UNCHANGED sheets

Next ==
    \/ SummaryProcessing
    \/ WildSpotterSummary
    \/ SatisfactionSummary
    \/ StrategicPlanSummary
    \/ Layout
    \/ VolunteerProgramsPage
    \/ InvasivePlantRemovalPage
    \/ StrategicPlanPage
    \/ MilestonesPage
    \/ \E p \in Range(Pages) : SelectPage(p)
    \/ Reload

Spec == Init /\ [][Next]_vars

\* ------------------------------------------------------------------ claims
\* The datasets the outputs of a page are computed from (lines 79-146).
PageDeps(p) ==
    CASE p = Pages[1] -> {"Summary", "Satisfaction"}
      [] p = Pages[2] -> {"Summary", "WildSpotter"}
      [] p = Pages[3] -> {"Strategic"}
      [] OTHER -> {"Summary", "WildSpotter"}
\* The pages that have put an element on the screen in this run.
RenderedPages == {rendered[i].section : i \in DOMAIN rendered} \cap Range(Pages)
PageRendered(p) == pc = "done" /\ p \in RenderedPages
ElementShown(widget, label) ==
    \E i \in DOMAIN rendered : rendered[i].widget = widget /\ rendered[i].label = label
ExceptionShown ==
    rendered # <<>> /\ rendered[Len(rendered)].widget = "exception"

\* C1: when a run ends on a failure in one dataset's section, the selected
\* page is still rendered if its outputs do not depend on that dataset.
C1_SectionFailureIsolated ==
    (RunEnded /\ error.at \in Datasets /\ error.at \notin PageDeps(selection))
        => PageRendered(selection)

\* The headers "1".."12" of the month columns, in calendar order.
CalendarKeys == <<"1", "2", "3", "4", "5", "6", "7", "8", "9", "10", "11", "12">>
CalendarLabels ==
    <<"Jan", "Feb", "Mar", "Apr", "May", "Jun", "Jul", "Aug", "Sep", "Oct", "Nov", "Dec">>
SheetHasZero(row, col) ==
    /\ row \in DOMAIN summary_sheet
    /\ col \in DOMAIN summary_sheet[row]
    /\ summary_sheet[row][col] = Num(0)

\* C2: a failed run shows an explicit error, and every 0.0 on the screen (a
\* bar of the monthly chart, the RTF Value KPI) is a zero cell of the Summary
\* sheet, never an absent month column or an absent "RTF Value" row.
C2_ZeroOnlyFromData ==
    /\ pc = "failed" => ExceptionShown
    /\ \A i \in DOMAIN rendered :
        /\ (rendered[i].section = Pages[1] /\ rendered[i].widget = "altair_chart")
            => \A m \in DOMAIN rendered[i].value :
                    rendered[i].value[m].value = 0
                        => SheetHasZero("Value", CalendarKeys[m])
        /\ (rendered[i].widget = "metric" /\ rendered[i].label = "RTF Value ($)")
            => (rendered[i].value = 0 => SheetHasZero("RTF Value", "Total"))

SummaryAttempted == pc # "summary"
RequiredRowAbsent == \E i \in DOMAIN RequiredRows : RequiredRows[i] \notin DOMAIN summary_sheet

\* C3: an absent required row makes KPI extraction fail with the missing-metric
\* error (a KeyError); that failure takes away the KPI display only (the
\* satisfaction tables of the same page, computed from a good Satisfaction
\* sheet, are still shown); an absent "RTF Value" row gives the KPI 0.0 and
\* no failure.
C3_MissingMetricFatalToKpisOnly ==
    /\ (SummaryAttempted /\ RequiredRowAbsent)
        => (error.at = "Summary" /\ error.kind = "KeyError")
    /\ (RunEnded /\ error.at = "Summary" /\ error.kind = "KeyError"
            /\ selection = Pages[1] /\ SatisfactionError(satisfaction_sheet) = "none")
        => ElementShown("dataframe", "satisfaction_by_event")
    /\ (pc = "done" /\ page = Pages[2] /\ "RTF Value" \notin DOMAIN summary_sheet)
        => \E i \in DOMAIN rendered :
                /\ rendered[i].widget = "metric"
                /\ rendered[i].label = "RTF Value ($)"
                /\ rendered[i].value = 0

\* C4: whichever month columns the Summary sheet has, monthly_value has 12
\* entries labelled Jan..Dec in calendar order; entry i holds the Value row's
\* cell of column str(i) when the column is present and 0.0 when it is absent.
C4_MonthlySeriesTwelveInOrder ==
    "Summary" \in computed =>
        /\ Len(monthly_value) = Len(CalendarLabels)
        /\ \A i \in DOMAIN monthly_value :
            /\ monthly_value[i].month = CalendarLabels[i]
            /\ monthly_value[i].value =
                IF CalendarKeys[i] \in DOMAIN summary_sheet["Value"]
                THEN summary_sheet["Value"][CalendarKeys[i]].num
                ELSE 0
\* December's column present with a value while January's is absent.
C4_Witness ==
    /\ "Summary" \in computed
    /\ DOMAIN summary_sheet["Value"] = {"Total", "12"}
    /\ monthly_value[12] = [month |-> "Dec", value |-> 200]
    /\ monthly_value[1] = [month |-> "Jan", value |-> 0]

\* The ranking the Invasive page charts (line 117), of the frame of this run.
SpeciesRanking == ValueCounts(Column(wildspotter_df, "Species Name"))
RankingCounts(r) == [i \in DOMAIN r |-> r[i].count]
\* Each species of the sheet once, with the number of its rows; the counts add
\* up to total_sightings; most_common_species and its count head the ranking.
RankingFacts(r) ==
    /\ \A i, j \in DOMAIN r : i # j => r[i].species # r[j].species
    /\ \A i \in DOMAIN r :
            r[i].count = Cardinality({k \in DOMAIN wildspotter_sheet :
                                wildspotter_sheet[k]["Species Name"] = r[i].species})
    /\ SumSeq(RankingCounts(r)) = total_sightings
    /\ total_sightings = Len(wildspotter_sheet)
    /\ r[1].species = most_common_species
    /\ r[1].count = top_species_count

\* C5 (as stated): the ranking is strictly descending by count, its counts add
\* up to total_sightings, and the most common species heads it.
C5_StrictlyDescending ==
    "WildSpotter" \in computed =>
        /\ \A i, j \in DOMAIN SpeciesRanking :
                i < j => SpeciesRanking[i].count > SpeciesRanking[j].count
        /\ RankingFacts(SpeciesRanking)
\* C5 (amended): the ranking is in non-increasing order of count (species of
\* equal count follow each other), its counts add up to total_sightings, and
\* the most common species with its count is the first entry.
C5_NonIncreasing ==
    "WildSpotter" \in computed =>
        /\ \A i, j \in DOMAIN SpeciesRanking :
                i < j => SpeciesRanking[i].count >= SpeciesRanking[j].count
        /\ RankingFacts(SpeciesRanking)
\* A sheet whose most common species is not the first one seen, with a tie
\* behind it.
C5_Witness ==
    /\ "WildSpotter" \in computed
    /\ Len(SpeciesRanking) = 3
    /\ wildspotter_sheet[1]["Species Name"] # most_common_species
    /\ top_species_count = 2
    /\ SpeciesRanking[2].count = SpeciesRanking[3].count

\* "yes" in any mix of upper and lower case.
IsYes(t) ==
    /\ Len(t) = 3
    /\ t[1] \in {"y", "Y"} /\ t[2] \in {"e", "E"} /\ t[3] \in {"s", "S"}
YesRows == {i \in DOMAIN strategic_sheet : IsYes(strategic_sheet[i][BarrierCol].txt)}

\* C6: pct_facing_barriers is 100 times the share of all rows (blank and other
\* answers included in the denominator) whose answer is "yes" in any case,
\* rounded to 2 decimals: within half a hundredth of the exact share, in
\* [0,100], 100 when every row says yes and 0 when none does.
C6_PctFacingBarriers ==
    "Strategic" \in computed =>
        LET n == Len(strategic_sheet)
            k == Cardinality(YesRows)
            pct == strategic_kpis.PctFacingBarriers
            diff == pct * n - 10000 * k
        IN  /\ strategic_kpis.TotalResponses = n
            /\ 2 * diff <= n /\ 2 * diff >= -n
            /\ pct >= 0 /\ pct <= 10000
            /\ (k = n => pct = 10000)
            /\ (k = 0 => pct = 0)
\* "Yes", "YES" and a blank answer: 66.67.
C6_Witness ==
    /\ "Strategic" \in computed
    /\ Len(strategic_sheet) = 3
    /\ Cardinality(YesRows) = 2
    /\ \E i \in DOMAIN strategic_sheet : strategic_sheet[i][BarrierCol].txt = <<>>
    /\ \E i \in DOMAIN strategic_sheet : strategic_sheet[i][BarrierCol].txt = <<"Y", "E", "S">>
    /\ strategic_kpis.PctFacingBarriers = 6667

StrategicAttempted == pc \notin {"summary", "wildspotter", "satisfaction", "strategic"}
NonNumericRating ==
    /\ strategic_sheet # <<>>
    /\ \E i \in DOMAIN strategic_sheet :
            \/ strategic_sheet[i][AccessCol].kind # "num"
            \/ strategic_sheet[i][VisitCol].kind # "num"
\* Within half a hundredth of the mean of the ratings of a column.
IsRoundedMean(score, col) ==
    LET n == Len(strategic_sheet)
        total == SumSeq([i \in DOMAIN strategic_sheet |-> strategic_sheet[i][col].num])
        diff == score * n - 100 * total
    IN  2 * diff <= n /\ 2 * diff >= -n

\* C7: a non-numeric rating makes the score computation fail with the parse
\* error (a ValueError); the failure touches the Strategic KPIs only (a
\* selected page that does not use the Strategic sheet is still rendered);
\* with numeric ratings each score is the mean rounded to 2 decimals.
C7_ParseErrorStrategicOnly ==
    /\ (StrategicAttempted /\ error.at \in {"", "Strategic"} /\ NonNumericRating)
        => (error.at = "Strategic" /\ error.kind = "ValueError")
    /\ (RunEnded /\ error.at = "Strategic" /\ error.kind = "ValueError"
            /\ "Strategic" \notin PageDeps(selection))
        => PageRendered(selection)
    /\ "Strategic" \in computed =>
        /\ IsRoundedMean(strategic_kpis.AccessibilityScore, AccessCol)
        /\ IsRoundedMean(strategic_kpis.VisitFrequencyScore, VisitCol)

LikertStatements == <<"I felt welcome", "The event positively impacted me">>
\* The score each text of the vocabulary stands for.
Vocabulary == {"Strongly Agree", "Agree", "Neutral", "Disagree", "Strongly Disagree"}
ExpectedScore(text) ==
    CASE text = "Strongly Agree" -> 5
      [] text = "Agree" -> 4
      [] text = "Neutral" -> 3
      [] text = "Disagree" -> 2
      [] text = "Strongly Disagree" -> 1
      [] OTHER -> 0
\* The response a row of satisfaction_long was made from, and its answer.
SourceRow(k) == satisfaction_sheet[((k - 1) % Len(satisfaction_sheet)) + 1]
SourceText(k) == SourceRow(k)[satisfaction_long[k].Statement]
RECURSIVE SumExpected(_)
SumExpected(ks) ==
    IF ks = {} THEN 0
    ELSE LET k == CHOOSE x \in ks : TRUE
         IN  ExpectedScore(SourceText(k)) + SumExpected(ks \ {k})
\* The mean over the rows ks of satisfaction_long, texts outside the
\* vocabulary left out of both the sum and the count.
ExpectedMean(ks) ==
    LET scored == {k \in ks : SourceText(k) \in Vocabulary}
    IN  IF scored = {} THEN NaN
        ELSE [nan |-> FALSE, sum |-> SumExpected(scored), count |-> Cardinality(scored)]
EventGroup(g) ==
    {k \in DOMAIN satisfaction_long :
        satisfaction_long[k].EventTitle = g[1] /\ satisfaction_long[k].Statement = g[2]}
MonthGroup(g) ==
    {k \in DOMAIN satisfaction_long :
        satisfaction_long[k].Month = g[1] /\ satisfaction_long[k].Statement = g[2]}

\* C8: the five texts of the vocabulary map to 5..1 and any other text to a
\* missing score; a grouped mean (by event, by month) is taken over the scores
\* that are not missing only, and a group without any score has an undefined
\* mean (NaN) while the section still completes.
C8_ScoreMapAndGroupedMeans ==
    /\ error.at = "Satisfaction" => satisfaction_sheet = <<>>
    /\ "Satisfaction" \in computed =>
        /\ Len(satisfaction_long) = Len(satisfaction_sheet) * Len(LikertStatements)
        /\ \A k \in DOMAIN satisfaction_long :
            /\ satisfaction_long[k].Statement =
                    LikertStatements[((k - 1) \div Len(satisfaction_sheet)) + 1]
            /\ satisfaction_long[k].EventTitle = SourceRow(k)["Event Title"]
            /\ satisfaction_long[k].Score.missing = (SourceText(k) \notin Vocabulary)
            /\ SourceText(k) \in Vocabulary
                    => satisfaction_long[k].Score.val = ExpectedScore(SourceText(k))
        /\ DOMAIN satisfaction_by_event =
                {<<satisfaction_long[k].EventTitle, satisfaction_long[k].Statement>> :
                    k \in DOMAIN satisfaction_long}
        /\ \A g \in DOMAIN satisfaction_by_event :
                satisfaction_by_event[g] = ExpectedMean(EventGroup(g))
        /\ DOMAIN satisfaction_by_month =
                {<<satisfaction_long[k].Month, satisfaction_long[k].Statement>> :
                    k \in DOMAIN satisfaction_long}
        /\ \A g \in DOMAIN satisfaction_by_month :
                satisfaction_by_month[g] = ExpectedMean(MonthGroup(g))
\* A group by event whose mean leaves a missing score out, beside a group by
\* month that has no score at all.
C8_Witness ==
    /\ "Satisfaction" \in computed
    /\ \E g \in DOMAIN satisfaction_by_event :
            /\ ~satisfaction_by_event[g].nan
            /\ satisfaction_by_event[g].count < Cardinality(EventGroup(g))
    /\ \E g \in DOMAIN satisfaction_by_month : satisfaction_by_month[g].nan

SatisfactionAttempted == pc \notin {"summary", "wildspotter", "satisfaction"}
Unparseable(k) == ToDatetime(SourceRow(k)["Timestamp"]).nat

\* C9: a response whose timestamp cannot be parsed does not fail the load and
\* still gives its Likert rows to satisfaction_long and to the by-event
\* aggregate, but its Month is null: it is in no group of the by-month
\* aggregate.
C9_UnparseableTimestampHasNoMonthGroup ==
    /\ (SatisfactionAttempted /\ satisfaction_sheet # <<>> /\ error.at \in {"", "Satisfaction"})
        => error.at # "Satisfaction"
    /\ "Satisfaction" \in computed =>
        /\ Len(satisfaction_long) = Len(satisfaction_sheet) * Len(LikertStatements)
        /\ \A k \in DOMAIN satisfaction_long :
            Unparseable(k) =>
                /\ <<satisfaction_long[k].EventTitle, satisfaction_long[k].Statement>>
                        \in DOMAIN satisfaction_by_event
                /\ <<satisfaction_long[k].Month, satisfaction_long[k].Statement>>
                        \notin DOMAIN satisfaction_by_month

\* C10: the page selection is read only after the four sections have all
\* completed; a run renders at most one page, the selected one, and a run that
\* ends normally has rendered exactly that page; so a page is on the screen
\* only in a run where all four computations succeeded.
C10_PageOnlyAfterAllFourSucceed ==
    /\ page # "" => computed = Datasets
    /\ RenderedPages # {} => (computed = Datasets /\ RenderedPages = {page})
    /\ RadioShown => computed = Datasets
    /\ pc = "done" => (RenderedPages = {page} /\ page = selection)
    /\ computed # Datasets => pc \notin {"layout", "page", "done"}
\* A run that has rendered the Strategic Plan page the user picked.
C10_Witness ==
    /\ pc = "done"
    /\ page = Pages[3]
    /\ RenderedPages = {Pages[3]}
    /\ computed = Datasets

====
